---- MODULE Spec2Model ----
(***************************************************************************)
(* Model of packages/zapier-platform-schema/lib/utils/buildDocs.js: the    *)
(* generator of the schema documentation.  JavaScript values are tagged    *)
(* records, text is a sequence of tokens: every character that comes from  *)
(* the input is a token of its own, the fixed text of a template is one    *)
(* token per piece.                                                        *)
(***************************************************************************)
EXTENDS Naturals, Sequences, FiniteSets

VARIABLES
    call,       \* the formatter called on its own: [fn, arg]
    ret,        \* what that call returned or threw
    nodes,      \* the Schema objects: object |-> [id, schema, dependencies]
    other,      \* the same objects with dependencies lists reordered
    calls,      \* number of buildDocs calls started
    prev,       \* outcome of the previous buildDocs call
    pc,         \* position inside buildDocs
    stack,      \* the activations of recurse, innermost last
    schemas,    \* collectSchemas' object schemas, entries in insertion order
    walked,     \* per id: how often recurse went into the dependencies of a Schema with it
    sorted,     \* the sorted values of schemas
    sections,   \* the sections rendered so far
    docs        \* buildDocs' outcome

vars == <<call, ret, nodes, other, calls, prev, pc, stack, schemas, walked, sorted, sections, docs>>

(***************************************************************************)
(* Bounds of the model.                                                    *)
(***************************************************************************)
MaxLen == 3          \* longest input string
MaxEdges == 3        \* dependencies entries in the whole graph
MaxStack == 4        \* activations of recurse the call stack holds

(***************************************************************************)
(* JavaScript values.                                                      *)
(***************************************************************************)
Undef == [t |-> "undefined"]
Null == [t |-> "null"]
Bool(b) == [t |-> "boolean", v |-> b]
Str(s) == [t |-> "string", v |-> s]
Arr(xs) == [t |-> "array", v |-> xs]
\* a plain object: its own enumerable entries, in insertion order
Obj(entries) == [t |-> "object", v |-> entries]
P(key, val) == [k |-> <<key>>, v |-> val]

\* ToBoolean
Truthy(x) ==
    CASE x.t = "undefined" -> FALSE
      [] x.t = "null" -> FALSE
      [] x.t = "boolean" -> x.v
      [] x.t = "string" -> x.v # <<>>
      [] OTHER -> TRUE

HasKey(o, key) == \E i \in 1..Len(o.v) : o.v[i].k = key

\* o[key] (and _.get for one step of a path): undefined when o has no such entry
Get(o, key) ==
    IF o.t = "object" /\ HasKey(o, <<key>>)
    THEN o.v[CHOOSE i \in 1..Len(o.v) : o.v[i].k = <<key>>].v
    ELSE Undef

\* Object.keys
Keys(o) == [i \in 1..Len(o.v) |-> o.v[i].k]

\* a || b
Or(a, b) == IF Truthy(a) THEN a ELSE b

(***************************************************************************)
(* Text.                                                                   *)
(***************************************************************************)
RECURSIVE Join(_, _)
\* Array.prototype.join
Join(texts, sep) ==
    IF texts = <<>> THEN <<>>
    ELSE IF Len(texts) = 1 THEN texts[1]
    ELSE texts[1] \o sep \o Join(Tail(texts), sep)

\* String.prototype.replace(pattern, '') with a string pattern: the first
\* occurrence only
ReplaceFirst(s, c) ==
    IF \E i \in 1..Len(s) : s[i] = c
    THEN LET i == CHOOSE j \in 1..Len(s) : s[j] = c /\ \A m \in 1..(j - 1) : s[m] # c
         IN  SubSeq(s, 1, i - 1) \o SubSeq(s, i + 1, Len(s))
    ELSE s

Contains(text, token) == \E i \in 1..Len(text) : text[i] = token

RECURSIVE Split(_, _)
\* the pieces of text between the occurrences of the token sep
Split(text, sep) ==
    IF ~Contains(text, sep) THEN <<text>>
    ELSE LET i == CHOOSE j \in 1..Len(text) : text[j] = sep /\ \A m \in 1..(j - 1) : text[m] # sep
         IN  <<SubSeq(text, 1, i - 1)>> \o Split(SubSeq(text, i + 1, Len(text)), sep)

\* the character U+0060, which a TLA+ string cannot hold
Backtick == "<backtick>"

NO_DESCRIPTION == <<"_No description given._">>
\* a plausible slip: the combinators tried in another order
COMBOS_Reordered == <<"oneOf", "allOf", "anyOf">>
COMBOS == <<"anyOf", "allOf", "oneOf">>
SKIP_KEY == <<"_skipTest">>

quoteOrNa(val) ==
    IF Truthy(val)
    THEN <<Backtick>> \o ReplaceFirst(val.v, Backtick) \o <<Backtick>>
    ELSE <<"_n/a_">>

\* _.isPlainObject
isPlainObject(x) == x.t = "object"

\* _.omit(object, key) for one key: a copy without the own entry key
omit(o, key) == Obj(SelectSeq(o.v, LAMBDA e : e.k # key))

RECURSIVE inspect(_)
\* util.inspect(value, { depth: null, breakLength: Infinity })
inspect(x) ==
    CASE x.t = "undefined" -> <<"undefined">>
      [] x.t = "null" -> <<"null">>
      [] x.t = "boolean" -> (IF x.v THEN <<"true">> ELSE <<"false">>)
      [] x.t = "string" -> <<"'">> \o x.v \o <<"'">>
      [] x.t = "array" ->
            (IF x.v = <<>> THEN <<"[]">>
             ELSE <<"[ ">> \o Join([i \in 1..Len(x.v) |-> inspect(x.v[i])], <<", ">>) \o <<" ]">>)
      [] x.t = "object" ->
            (IF x.v = <<>> THEN <<"{}">>
             ELSE <<"{ ">>
                  \o Join([i \in 1..Len(x.v) |-> x.v[i].k \o <<": ">> \o inspect(x.v[i].v)], <<", ">>)
                  \o <<" }">>)

formatExample(example) ==
    LET ex == IF isPlainObject(example) THEN omit(example, SKIP_KEY) ELSE example
    IN  <<"* ">> \o quoteOrNa(Str(inspect(ex)))

\* links.anchor
anchor(id) == <<"#">> \o id

\* links.makeCodeLink
makeCodeLink(id) == <<"<repo>/lib/schemas">> \o id \o <<".js">>

RECURSIVE typeOrLink(_)
typeOrLink(schema) ==
    LET combo(i) == Get(schema, COMBOS[i])
        hit(i) == Truthy(combo(i)) /\ Len(combo(i).v) > 0
    IN  IF Get(schema, "type") = Str(<<"array">>) /\ Truthy(Get(schema, "items"))
        THEN quoteOrNa(Get(schema, "type")) \o <<"[">> \o typeOrLink(Get(schema, "items")) \o <<"]">>
        ELSE IF Truthy(Get(schema, "$ref"))
        THEN <<"[">> \o Get(schema, "$ref").v \o <<"](">> \o anchor(Get(schema, "$ref").v) \o <<")">>
        ELSE IF \E i \in 1..Len(COMBOS) : hit(i)
        THEN LET i == CHOOSE j \in 1..Len(COMBOS) : hit(j) /\ \A m \in 1..(j - 1) : ~hit(m)
                 members == combo(i).v
             IN  <<COMBOS[i], "(">>
                 \o Join([m \in 1..Len(members) |-> typeOrLink(members[m])], <<", ">>)
                 \o <<")">>
        ELSE IF Truthy(Get(schema, "enum")) /\ Len(Get(schema, "enum").v) > 0
        THEN LET members == Get(schema, "enum").v
             IN  quoteOrNa(Get(schema, "type")) \o <<" in (">>
                 \o Join([m \in 1..Len(members) |-> quoteOrNa(Str(inspect(members[m])))], <<", ">>)
                 \o <<")">>
        ELSE quoteOrNa(Get(schema, "type"))

(***************************************************************************)
(* The sections of one Schema.  A call either returns text or throws.      *)
(***************************************************************************)
Return(text) == [t |-> "return", v |-> text]
Throw(message) == [t |-> "throw", v |-> message]

\* a value interpolated into a template literal or added to a string
interpolate(x) == IF x.t = "string" THEN x.v ELSE <<x.t>>

NL == "\n"

\* Array.prototype.map(formatExample).join('\n')
ExampleLines(examples) ==
    Join([i \in 1..Len(examples.v) |-> formatExample(examples.v[i])], <<NL>>)

makeExampleSection(Schema) ==
    LET examples == Or(Get(Schema.schema, "examples"), Arr(<<>>))
    IN  IF Len(examples.v) = 0 THEN <<>>
        ELSE <<"#### Examples", NL, NL>> \o ExampleLines(examples) \o <<NL>>

\* a plausible slip: the anti-examples read from examples
makeAntiExampleSection_ReadsExamples(Schema) ==
    LET examples == Or(Get(Schema.schema, "examples"), Arr(<<>>))
    IN  IF Len(examples.v) = 0 THEN <<>>
        ELSE <<"#### Anti-Examples", NL, NL>> \o ExampleLines(examples) \o <<NL>>

makeAntiExampleSection(Schema) ==
    LET examples == Or(Get(Schema.schema, "antiExamples"), Arr(<<>>))
    IN  IF Len(examples.v) = 0 THEN <<>>
        ELSE <<"#### Anti-Examples", NL, NL>> \o ExampleLines(examples) \o <<NL>>

\* a plausible slip: append handled like replace
isRequired_AppendReplaces(property, propIsRequired) ==
    LET annotation == Get(Get(property, "docAnnotation"), "required")
    IN  IF Truthy(annotation)
        THEN IF Get(annotation, "type") \in {Str(<<"replace">>), Str(<<"append">>)}
             THEN Return(interpolate(Get(annotation, "value")))
             ELSE Throw(<<"unrecognized docAnnotation type: ">> \o interpolate(Get(annotation, "type")))
        ELSE Return(IF propIsRequired THEN <<"**yes**">> ELSE <<"no">>)

\* a plausible slip: an unrecognized annotation type is ignored
isRequired_IgnoresUnknown(property, propIsRequired) ==
    LET default == IF propIsRequired THEN <<"**yes**">> ELSE <<"no">>
        annotation == Get(Get(property, "docAnnotation"), "required")
    IN  IF Truthy(annotation) /\ Get(annotation, "type") = Str(<<"replace">>)
        THEN Return(interpolate(Get(annotation, "value")))
        ELSE IF Truthy(annotation) /\ Get(annotation, "type") = Str(<<"append">>)
        THEN Return(default \o interpolate(Get(annotation, "value")))
        ELSE Return(default)

\* the variable isRequired of processProperty, or the error thrown computing it
isRequired(property, propIsRequired) ==
    LET default == IF propIsRequired THEN <<"**yes**">> ELSE <<"no">>
        annotation == Get(Get(property, "docAnnotation"), "required")
    IN  IF Truthy(annotation)
        THEN IF Get(annotation, "type") = Str(<<"replace">>)
             THEN Return(interpolate(Get(annotation, "value")))
             ELSE IF Get(annotation, "type") = Str(<<"append">>)
             THEN Return(default \o interpolate(Get(annotation, "value")))
             ELSE Throw(<<"unrecognized docAnnotation type: ">> \o interpolate(Get(annotation, "type")))
        ELSE Return(default)

processProperty(key, property, propIsRequired) ==
    LET required == isRequired(property, propIsRequired)
    IN  IF required.t = "throw" THEN required
        ELSE Return(quoteOrNa(Str(key)) \o <<" | ">> \o required.v \o <<" | ">> \o typeOrLink(property)
                    \o <<" | ">> \o Or(Get(property, "description"), Str(NO_DESCRIPTION)).v)

\* Array.prototype.includes on an array of strings
includes(array, key) == \E i \in 1..Len(array.v) : array.v[i] = Str(key)

makePropertiesSection(Schema) ==
    LET properties ==
            Or(Or(Get(Schema.schema, "properties"), Get(Schema.schema, "patternProperties")), Obj(<<>>))
        required == Or(Get(Schema.schema, "required"), Arr(<<>>))
        rows == [i \in 1..Len(properties.v) |->
                    processProperty(properties.v[i].k, properties.v[i].v,
                                    includes(required, properties.v[i].k))]
    IN  IF Len(Keys(properties)) = 0 THEN Return(<<>>)
        ELSE IF \E i \in 1..Len(rows) : rows[i].t = "throw"
        THEN rows[CHOOSE i \in 1..Len(rows) : rows[i].t = "throw" /\ \A m \in 1..(i - 1) : rows[m].t # "throw"]
        ELSE Return(<<"#### Properties", NL, NL, "Key | Required | Type | Description", NL,
                      "--- | -------- | ---- | -----------", NL>>
                    \o Join([i \in 1..Len(rows) |-> rows[i].v], <<NL>>) \o <<NL>>)

RECURSIVE trimStart(_)
\* String.prototype.trim, front
trimStart(text) ==
    IF text # <<>> /\ Head(text) = NL THEN trimStart(Tail(text)) ELSE text

RECURSIVE trimEnd(_)
\* String.prototype.trim, back
trimEnd(text) ==
    IF text # <<>> /\ text[Len(text)] = NL THEN trimEnd(SubSeq(text, 1, Len(text) - 1)) ELSE text

trim(text) == trimEnd(trimStart(text))

makeMarkdownSection(Schema) ==
    LET properties == makePropertiesSection(Schema)
    IN  IF properties.t = "throw" THEN properties
        ELSE Return(trim(
            <<"## ">> \o Schema.id \o <<NL, NL>>
            \o Or(Get(Schema.schema, "description"), Str(NO_DESCRIPTION)).v \o <<NL, NL>>
            \o <<"#### Details", NL, NL>>
            \o <<"* **Type** - ">> \o typeOrLink(Schema.schema) \o <<NL>>
            \o <<"* **Pattern** - ">> \o quoteOrNa(Get(Schema.schema, "pattern")) \o <<NL>>
            \o <<"* **Source Code** - [lib/schemas">> \o Schema.id \o <<".js](">>
            \o makeCodeLink(Schema.id) \o <<")", NL, NL>>
            \o makeExampleSection(Schema) \o <<NL>>
            \o makeAntiExampleSection(Schema) \o <<NL>>
            \o properties.v \o <<NL>>))

(***************************************************************************)
(* The formatters, each applied to an input drawn from a bounded set.      *)
(***************************************************************************)
Chars == {"a", Backtick}
Strings == UNION {[1..n -> Chars] : n \in 0..MaxLen}

\* an object literal: the entries whose value is not undefined
Literal(entries) == Obj(SelectSeq(entries, LAMBDA e : e.v.t # "undefined"))

QuoteInputs == {Undef, Null} \cup {Str(s) : s \in Strings}

\* example values: scalars, then objects and arrays nested twice
ExampleKeys == {<<"a">>, SKIP_KEY}
ObjectsOver(values) ==
    {Obj(<<>>)}
    \cup {Obj(<<[k |-> key, v |-> val]>>) : key \in ExampleKeys, val \in values}
    \cup {Obj(<<[k |-> k1, v |-> v1], [k |-> k2, v |-> v2]>>) :
            <<k1, k2, v1, v2>> \in {q \in ExampleKeys \X ExampleKeys \X values \X values : q[1] # q[2]}}
ArraysOver(values) == {Arr(<<>>)} \cup {Arr(<<val>>) : val \in values}
Examples0 == {Str(<<"a">>)}
Examples1 == Examples0 \cup ObjectsOver(Examples0) \cup ArraysOver(Examples0)
Examples2 == Examples1 \cup ObjectsOver(Examples1) \cup ArraysOver(Examples1)

\* type descriptors: leaves, then every combination of the fields typeOrLink reads
Leaves == {Literal(<<P("type", Str(<<"string">>))>>), Literal(<<P("$ref", Str(<<"/", "B">>))>>)}
TypeValues == {Undef, Str(<<"array">>), Str(<<"string">>)}
RefValues == {Undef, Str(<<>>), Str(<<"/", "A">>)}
ComboValues == {Undef, Arr(<<>>)} \cup {Arr(<<d>>) : d \in Leaves} \cup {Arr(<<d, d>>) : d \in Leaves}
EnumValues == {Undef, Arr(<<>>), Arr(<<Str(<<"a">>), Str(<<>>)>>)}
Descriptors ==
    {Literal(<<P("type", ty), P("items", it), P("$ref", rf), P("anyOf", c1), P("allOf", c2),
               P("oneOf", c3), P("enum", en)>>) :
        <<ty, it, rf, c1, c2, c3, en>> \in
            TypeValues \X ({Undef} \cup Leaves) \X RefValues
            \X {Undef, Arr(<<>>), Arr(<<Literal(<<P("type", Str(<<"string">>))>>)>>)}
            \X ComboValues \X {Undef, Arr(<<Literal(<<P("$ref", Str(<<"/", "B">>))>>)>>)}
            \X EnumValues}

\* property descriptors with and without docAnnotation.required
AnnotationTypes == {Str(<<"replace">>), Str(<<"append">>), Str(<<"bogus">>), Undef}
AnnotationValues == {Str(<<"*">>), Str(<<"a", "*">>)}
Annotations ==
    {Undef, Literal(<<>>), Literal(<<P("required", Null)>>)}
    \cup {Literal(<<P("required", Literal(<<P("type", ty), P("value", val)>>))>>) :
            ty \in AnnotationTypes, val \in AnnotationValues}
Properties ==
    {Literal(<<P("type", Str(<<"string">>)), P("docAnnotation", an)>>) : an \in Annotations}
RequiredValues ==
    {Undef, Arr(<<>>), Arr(<<Str(<<"x">>)>>), Arr(<<Str(<<"y">>)>>), Arr(<<Str(<<"y">>), Str(<<"x">>)>>)}
PropertySchemas ==
    {[id |-> <<"/", "A">>, dependencies |-> <<>>,
      schema |-> Literal(<<P("properties", Literal(<<P("x", px), P("y", py)>>)), P("required", rq)>>)] :
        px \in Properties, py \in Properties, rq \in RequiredValues}

\* Schemas whose optional parts are absent, empty or filled
ExampleLists == {Undef, Arr(<<>>), Arr(<<Str(<<"a">>)>>), Arr(<<Literal(<<P("a", Null)>>), Str(<<>>)>>)}
PropertyMaps(key) ==
    {Undef, Literal(<<>>), Literal(<<P(key, Literal(<<P("type", Str(<<"string">>))>>))>>),
     Literal(<<P(key, Literal(<<P("docAnnotation",
                Literal(<<P("required", Literal(<<P("type", Str(<<"bogus">>))>>))>>))>>))>>)}
SectionSchemas ==
    {[id |-> <<"/", "A">>, dependencies |-> <<>>,
      schema |-> Literal(<<P("description", ds), P("type", Str(<<"object">>)), P("examples", ex),
                           P("antiExamples", ax), P("properties", pr), P("patternProperties", pp)>>)] :
        <<ds, ex, ax, pr, pp>> \in
            {Undef, Str(<<"a">>)} \X ExampleLists \X ExampleLists \X PropertyMaps("x") \X PropertyMaps("y")}

Pending == [t |-> "pending", v |-> <<>>]

\* the variables of buildDocs while only a formatter is exercised
DocsIdle ==
    /\ nodes = <<>> /\ other = <<>> /\ calls = 0 /\ prev = Pending /\ pc = "idle"
    /\ stack = <<>> /\ schemas = <<>> /\ walked = <<>> /\ sorted = <<>> /\ sections = <<>>
    /\ docs = Pending

InitFmt ==
    /\ \/ call \in {[fn |-> "quoteOrNa", arg |-> x] : x \in QuoteInputs}
       \/ call \in {[fn |-> "formatExample", arg |-> x] : x \in Examples2}
       \/ call \in {[fn |-> "typeOrLink", arg |-> x] : x \in Descriptors}
       \/ call \in {[fn |-> "makePropertiesSection", arg |-> x] : x \in PropertySchemas}
       \/ call \in {[fn |-> "makeMarkdownSection", arg |-> x] : x \in SectionSchemas}
    /\ ret = Pending
    /\ DocsIdle

Apply(fn, result) ==
    /\ call.fn = fn
    /\ ret = Pending
    /\ ret' = result
    /\ UNCHANGED <<call, nodes, other, calls, prev, pc, stack, schemas, walked, sorted, sections, docs>>

QuoteOrNa == Apply("quoteOrNa", Return(quoteOrNa(call.arg)))
FormatExample == Apply("formatExample", Return(formatExample(call.arg)))
TypeOrLink == Apply("typeOrLink", Return(typeOrLink(call.arg)))
MakePropertiesSection == Apply("makePropertiesSection", makePropertiesSection(call.arg))
MakeMarkdownSection == Apply("makeMarkdownSection", makeMarkdownSection(call.arg))

NextFmt ==
    \/ QuoteOrNa
    \/ FormatExample
    \/ TypeOrLink
    \/ MakePropertiesSection
    \/ MakeMarkdownSection

SpecFmt == InitFmt /\ [][NextFmt]_vars

(***************************************************************************)
(* collectSchemas and walkSchemas.  A Schema object is named by a          *)
(* reference; dependencies hold references.                                *)
(***************************************************************************)
Objects == {"o1", "o2", "o3"}
InitSchema == "o1"
Ids == {<<"/", "A">>, <<"/", "A", "B">>, <<"/", "B">>}

\* Object.values / _.values
values(object) == [i \in 1..Len(object) |-> object[i].v]

\* a plausible slip: an id already recorded keeps its first Schema
callback_KeepsFirst(object, Schema) ==
    IF \E i \in 1..Len(object) : object[i].k = nodes[Schema].id
    THEN object
    ELSE Append(object, [k |-> nodes[Schema].id, v |-> Schema])

\* the callback of collectSchemas: schemas[Schema.id] = Schema
callback(object, Schema) ==
    IF \E i \in 1..Len(object) : object[i].k = nodes[Schema].id
    THEN [i \in 1..Len(object) |->
            IF object[i].k = nodes[Schema].id THEN [k |-> object[i].k, v |-> Schema] ELSE object[i]]
    ELSE Append(object, [k |-> nodes[Schema].id, v |-> Schema])

\* a plausible slip: the iteration over dependencies starts one too far
activation_SkipsFirst(Schema, parents) == [Schema |-> Schema, parents |-> parents, next |-> 2]

\* an activation of recurse that has run the callback and is about to map
\* over Schema.dependencies
activation(Schema, parents) == [Schema |-> Schema, parents |-> parents, next |-> 1]

RangeError == Throw(<<"RangeError: Maximum call stack size exceeded">>)

\* buildDocs calls collectSchemas, which calls walkSchemas, which calls
\* recurse(InitSchema)
CollectSchemas ==
    /\ pc = "buildDocs"
    /\ calls' = calls + 1
    /\ schemas' = callback(<<>>, InitSchema)
    /\ stack' = <<activation(InitSchema, <<>>)>>
    /\ walked' = [id \in Ids |-> 0]
    /\ pc' = "walkSchemas"
    /\ UNCHANGED <<call, ret, nodes, other, prev, sorted, sections, docs>>

\* the next childSchema of the innermost activation: recurse(childSchema,
\* newParents), unless the call stack is exhausted
Recurse ==
    /\ pc = "walkSchemas"
    /\ LET top == stack[Len(stack)]
           dependencies == nodes[top.Schema].dependencies
       IN  /\ top.next <= Len(dependencies)
           /\ IF Len(stack) >= MaxStack
              THEN /\ pc' = "RangeError"
                   /\ docs' = RangeError
                   /\ stack' = <<>>
                   /\ schemas' = <<>>
                   /\ UNCHANGED walked
              ELSE /\ schemas' = callback(schemas, dependencies[top.next])
                   /\ stack' = [stack EXCEPT ![Len(stack)].next = top.next + 1]
                               \o <<activation(dependencies[top.next], top.parents \o <<InitSchema>>)>>
                   /\ walked' = IF top.next = 1
                                THEN [walked EXCEPT ![nodes[top.Schema].id] = @ + 1]
                                ELSE walked
                   /\ UNCHANGED <<pc, docs>>
    /\ UNCHANGED <<call, ret, nodes, other, calls, prev, sorted, sections>>

\* the innermost activation has mapped over all its dependencies
ReturnFromRecurse ==
    /\ pc = "walkSchemas"
    /\ stack[Len(stack)].next > Len(nodes[stack[Len(stack)].Schema].dependencies)
    /\ stack' = SubSeq(stack, 1, Len(stack) - 1)
    /\ pc' = IF Len(stack) = 1 THEN "collected" ELSE pc
    /\ UNCHANGED <<call, ret, nodes, other, calls, prev, schemas, walked, sorted, sections, docs>>

FmtIdle == call = [fn |-> "buildDocs", arg |-> Undef] /\ ret = Pending

ListsUpTo(n) == UNION {[1..m -> Objects] : m \in 0..n}

PlainSchema == Literal(<<P("type", Str(<<"string">>))>>)

\* the dependencies lists of the three objects, n entries in all at most
DependencyLists(n) ==
    UNION {UNION {{<<d1, d2, d3>> : d3 \in ListsUpTo(n - Len(d1) - Len(d2))} :
                    d2 \in ListsUpTo(n - Len(d1))} : d1 \in ListsUpTo(n)}

Graph(ids, bodies, lists) ==
    [o \in Objects |->
        [id |-> ids[o], schema |-> bodies[o],
         dependencies |-> (CASE o = "o1" -> lists[1] [] o = "o2" -> lists[2] [] OTHER -> lists[3])]]

\* every graph, cyclic ones and ones with an id on several objects included
InitWalk ==
    /\ FmtIdle
    /\ \E lists \in DependencyLists(MaxEdges) : \E ids \in [Objects -> Ids] :
            nodes = Graph(ids, [o \in Objects |-> PlainSchema], lists)
    /\ other = nodes
    /\ calls = 0 /\ prev = Pending /\ pc = "buildDocs"
    /\ stack = <<>> /\ schemas = <<>> /\ walked = [id \in Ids |-> 0]
    /\ sorted = <<>> /\ sections = <<>> /\ docs = Pending

NextWalk ==
    \/ CollectSchemas
    \/ Recurse
    \/ ReturnFromRecurse

SpecWalk == InitWalk /\ [][NextWalk]_vars

(***************************************************************************)
(* Properties of collectSchemas.                                           *)
(***************************************************************************)
RECURSIVE Closure(_)
\* the objects reachable from the objects of S through dependencies
Closure(S) ==
    LET T == S \cup {nodes[o].dependencies[i] : <<o, i>> \in
                        {q \in S \X (1..MaxEdges) : q[2] <= Len(nodes[q[1]].dependencies)}}
    IN  IF T = S THEN S ELSE Closure(T)
Reachable == Closure({InitSchema})
Acyclic ==
    \A o \in Reachable : o \notin Closure({nodes[o].dependencies[i] : i \in 1..Len(nodes[o].dependencies)})

RECURSIVE Preorder(_)
\* the objects in the order a depth-first walk in dependencies order reaches
\* them, repeats included (of an acyclic graph)
Preorder(o) ==
    <<o>> \o Join([i \in 1..Len(nodes[o].dependencies) |-> Preorder(nodes[o].dependencies[i])], <<>>)

\* C1: on an acyclic graph the keys of the mapping collectSchemas returns are
\* exactly the ids reachable from the root, each with one entry.
C1_KeysAreReachableIds ==
    /\ pc = "collected" =>
        /\ {schemas[i].k : i \in 1..Len(schemas)} = {nodes[o].id : o \in Reachable}
        /\ \A i, j \in 1..Len(schemas) : schemas[i].k = schemas[j].k => i = j
    /\ (pc \in {"collected", "RangeError"} /\ Acyclic) => pc = "collected"

\* C1 witness: a walk returned in which an object was reached along two
\* paths and another object was not reachable at all.
C1_Witness ==
    /\ pc = "collected"
    /\ Len(Preorder(InitSchema)) > Cardinality(Reachable)
    /\ Cardinality(Reachable) = 2
    /\ Len(schemas) = 2

\* C2: the walk terminates on every graph, cyclic ones included, and the
\* dependencies of each id are traversed at most once per call.
C2_TerminatesVisitingOnce ==
    /\ pc # "RangeError"
    /\ \A id \in Ids : walked[id] <= 1

\* C9: when two different objects carry the same id, the mapping keeps the
\* one the depth-first walk reached first.
C9_Occurrences(id) ==
    {i \in 1..Len(Preorder(InitSchema)) : nodes[Preorder(InitSchema)[i]].id = id}
CodeUnit(c) == CASE c = "/" -> 47 [] c = "A" -> 65 [] c = "B" -> 66

RECURSIVE Less(_, _)
\* a < b on strings: by code units, a proper prefix first
Less(a, b) ==
    IF b = <<>> THEN FALSE
    ELSE IF a = <<>> THEN TRUE
    ELSE IF CodeUnit(a[1]) # CodeUnit(b[1]) THEN CodeUnit(a[1]) < CodeUnit(b[1])
    ELSE Less(Tail(a), Tail(b))

\* a plausible slip: the values left in insertion order
sortBy_Unsorted(collection) == collection

RECURSIVE sortBy(_)
\* _.sortBy(collection, 'id'): ascending and stable
sortBy(collection) ==
    IF collection = <<>> THEN <<>>
    ELSE LET last == collection[Len(collection)]
             front == sortBy(SubSeq(collection, 1, Len(collection) - 1))
             keep == {i \in 1..Len(front) : ~Less(nodes[last].id, nodes[front[i]].id)}
         IN  SubSeq(front, 1, Cardinality(keep)) \o <<last>> \o SubSeq(front, Cardinality(keep) + 1, Len(front))

\* packageJson.version
version == <<"1.0.0">>

\* the character of a heading as markdown-toc puts it in a link target
Slug(c) == CASE c = "/" -> <<>> [] c = "A" -> <<"a">> [] c = "B" -> <<"b">> [] OTHER -> <<c>>

\* the titles of the second-level headings of a text, in order
Headings(text) ==
    LET starts == SelectSeq([i \in 1..Len(text) |-> i], LAMBDA i : text[i] = "## ")
        end(i) == CHOOSE j \in (i + 1)..(Len(text) + 1) :
                    /\ j = Len(text) + 1 \/ text[j] = NL
                    /\ \A m \in (i + 1)..(j - 1) : text[m] # NL
    IN  [h \in 1..Len(starts) |-> SubSeq(text, starts[h] + 1, end(starts[h]) - 1)]

\* toc.insert(docs, { maxdepth: 2, bullets: '*' }): the list of the headings
\* that follow the marker, put after the marker
tocInsert(text) ==
    LET parts == Split(text, "<!-- toc -->")
        titles == Headings(parts[2])
        bullet(title) ==
            <<"* [">> \o title \o <<"](#">> \o Join([i \in 1..Len(title) |-> Slug(title[i])], <<>>) \o <<")">>
    IN  IF Len(parts) < 2 THEN text
        ELSE parts[1] \o <<"<!-- toc -->", NL, NL>>
             \o Join([i \in 1..Len(titles) |-> bullet(titles[i])], <<NL>>)
             \o <<NL, NL, "<!-- tocstop -->">> \o parts[2]

\* _.chain(schemas).values().sortBy('id')
SortBy ==
    /\ pc = "collected"
    /\ sorted' = sortBy(values(schemas))
    /\ sections' = <<>>
    /\ pc' = "sections"
    /\ UNCHANGED <<call, ret, nodes, other, calls, prev, stack, schemas, walked, docs>>

\* .map(makeMarkdownSection), one Schema at a time; an error thrown by
\* processProperty leaves buildDocs
MapMakeMarkdownSection ==
    /\ pc = "sections"
    /\ Len(sections) < Len(sorted)
    /\ LET section == makeMarkdownSection(nodes[sorted[Len(sections) + 1]])
       IN  IF section.t = "throw"
           THEN /\ pc' = "threw"
                /\ docs' = section
                /\ sections' = <<>>
                /\ schemas' = <<>>
           ELSE /\ sections' = Append(sections, section.v)
                /\ UNCHANGED <<pc, docs, schemas>>
    /\ UNCHANGED <<call, ret, nodes, other, calls, prev, stack, walked, sorted>>

\* .join, the template of the document, trim and toc.insert
InsertToc ==
    /\ pc = "sections"
    /\ Len(sections) = Len(sorted)
    /\ docs' = Return(tocInsert(trim(
            <<"<!-- {% raw %} -->", NL, "# ", Backtick, "zapier-platform-schema", Backtick,
              " Generated Documentation", NL, NL,
              "This is automatically generated by the ", Backtick, "npm run docs", Backtick,
              " command in ", Backtick, "zapier-platform-schema", Backtick, " version ">>
            \o quoteOrNa(Str(version)) \o <<".", NL, NL, "-----", NL, NL, "## Index", NL,
              "<!-- toc -->", NL, NL, "-----", NL, NL>>
            \o Join(sections, <<NL, NL, "-----", NL, NL>>) \o <<NL, "<!-- {% endraw %} -->", NL>>)))
    /\ pc' = "returned"
    /\ sections' = <<>>
    /\ schemas' = <<>>
    /\ UNCHANGED <<call, ret, nodes, other, calls, prev, stack, walked, sorted>>

\* buildDocs is called once more, on the graph with reordered dependencies
BuildDocsAgain ==
    /\ pc \in {"returned", "threw"}
    /\ calls = 1
    /\ prev' = docs
    /\ nodes' = other
    /\ other' = nodes
    /\ docs' = Pending
    /\ sorted' = <<>>
    /\ pc' = "buildDocs"
    /\ UNCHANGED <<call, ret, calls, stack, schemas, walked, sections>>

\* the dependencies lists that hold the entries of list in another order
Reorderings(list) ==
    {[i \in 1..Len(list) |-> list[f[i]]] :
        f \in {g \in [1..Len(list) -> 1..Len(list)] : \A i, j \in 1..Len(list) : g[i] = g[j] => i = j}}

DocumentedSchema ==
    Literal(<<P("description", Str(<<"a">>)), P("type", Str(<<"object">>)),
              P("examples", Arr(<<Literal(<<P("a", Str(<<"a">>))>>)>>)),
              P("properties", Literal(<<P("x", Literal(<<P("type", Str(<<"string">>)), P("docAnnotation",
                    Literal(<<P("required", Literal(<<P("type", Str(<<"append">>)), P("value", Str(<<"*">>))>>))>>))>>))>>)),
              P("required", Arr(<<Str(<<"x">>)>>))>>)
\* an unrecognized annotation type on a property that is rendered
BogusSchema ==
    Literal(<<P("patternProperties", Literal(<<P("y", Literal(<<P("docAnnotation",
                    Literal(<<P("required", Literal(<<P("type", Str(<<"bogus">>))>>))>>))>>))>>))>>)
\* an unrecognized annotation type on a property that properties hides
HiddenBogusSchema ==
    Literal(<<P("properties", Literal(<<>>)),
              P("patternProperties", Literal(<<P("y", Literal(<<P("docAnnotation",
                    Literal(<<P("required", Literal(<<P("type", Str(<<"bogus">>))>>))>>))>>))>>))>>)
Bodies == {PlainSchema, DocumentedSchema, BogusSchema, HiddenBogusSchema}

\* the root's id sorts last
RootLast == [o \in Objects |-> CASE o = "o1" -> <<"/", "B">> [] o = "o2" -> <<"/", "A">> [] OTHER -> <<"/", "A", "B">>]

\* the graphs of the data model: unique ids, no cycle.  Either the schemas
\* vary and the second call sees the same graph, or the ids vary and the
\* second call sees the dependencies lists reordered.
Init ==
    /\ FmtIdle
    /\ \/ \E lists \in DependencyLists(MaxEdges - 1) : \E bodies \in [Objects -> Bodies] :
            /\ nodes = Graph(RootLast, bodies, lists)
            /\ other = nodes
       \/ \E lists \in DependencyLists(MaxEdges) :
          \E ids \in {f \in [Objects -> Ids] : \A o, q \in Objects : f[o] = f[q] => o = q} :
          \E reordered \in Reorderings(lists[1]) \X Reorderings(lists[2]) \X Reorderings(lists[3]) :
            /\ nodes = Graph(ids, [o \in Objects |-> DocumentedSchema], lists)
            /\ other = Graph(ids, [o \in Objects |-> DocumentedSchema], reordered)
    /\ Acyclic
    /\ calls = 0 /\ prev = Pending /\ pc = "buildDocs"
    /\ stack = <<>> /\ schemas = <<>> /\ walked = [id \in Ids |-> 0]
    /\ sorted = <<>> /\ sections = <<>> /\ docs = Pending

Next ==
    \/ CollectSchemas
    \/ Recurse
    \/ ReturnFromRecurse
    \/ SortBy
    \/ MapMakeMarkdownSection
    \/ InsertToc
    \/ BuildDocsAgain

Spec == Init /\ [][Next]_vars

(***************************************************************************)
(* Properties of buildDocs.                                                *)
(***************************************************************************)
\* the titles of the sections of a document, in order
C7_Titles(text) == Headings(text)

\* C7: the document has one section per collected id, in ascending order of
\* id, and neither the order of dependencies lists nor a second call changes
\* a byte of it.
C7_SortedAndStable ==
    /\ pc = "returned" =>
        LET titles == C7_Titles(docs.v)
        IN  /\ Len(titles) = Cardinality(Reachable)
            /\ {titles[i] : i \in 1..Len(titles)} = {nodes[o].id : o \in Reachable}
            /\ \A i \in 1..(Len(titles) - 1) : Less(titles[i], titles[i + 1])
    /\ (calls = 2 /\ pc \in {"returned", "threw", "RangeError"}) => docs = prev

\* C7 witness: the second call, on a graph whose dependencies lists differ
\* in order from the first call's, returned three sections of which the
\* root's is not the first.
C7_Witness ==
    /\ calls = 2 /\ pc = "returned"
    /\ other # nodes
    /\ Len(C7_Titles(docs.v)) = 3
    /\ C7_Titles(docs.v)[1] # nodes[InitSchema].id
    /\ docs = prev

\* C6: buildDocs returns the whole document or throws the annotation error
\* and returns nothing; it throws exactly when a property rendered for a
\* collected Schema has an annotation type other than replace and append.
C6_Rendered(schema) ==
    IF Get(schema, "properties") # Undef THEN Get(schema, "properties")
    ELSE IF Get(schema, "patternProperties") # Undef THEN Get(schema, "patternProperties")
    ELSE Obj(<<>>)
C6_Unrecognized(o) ==
    \E i \in 1..Len(C6_Rendered(nodes[o].schema).v) :
        LET annotation == Get(Get(C6_Rendered(nodes[o].schema).v[i].v, "docAnnotation"), "required")
        IN  /\ annotation.t = "object"
            /\ Get(annotation, "type") \notin {Str(<<"replace">>), Str(<<"append">>)}
C6_AllOrNothing ==
    /\ pc \notin {"returned", "threw"} => docs = Pending
    /\ pc = "threw" =>
        /\ docs.t = "throw" /\ docs.v[1] = "unrecognized docAnnotation type: "
        /\ \E o \in Reachable : C6_Unrecognized(o)
    /\ pc = "returned" =>
        /\ docs.t = "return"
        /\ \A o \in Reachable : ~C6_Unrecognized(o)
        /\ docs.v[1] = "<!-- {% raw %} -->" /\ docs.v[Len(docs.v)] = "<!-- {% endraw %} -->"
        /\ Len(Headings(docs.v)) = Cardinality(Reachable)

\* C6 witness: the error was thrown for the second of three collected
\* Schemas, after the first section had been rendered, while a Schema that
\* lacks every optional field was collected too.
C6_Witness ==
    /\ pc = "threw"
    /\ Len(sorted) = 3
    /\ ~C6_Unrecognized(sorted[1]) /\ C6_Unrecognized(sorted[2])
    /\ \E o \in Reachable : nodes[o].schema = PlainSchema
    /\ docs.t = "throw"

(***************************************************************************)
(* Properties of the formatters.                                           *)
(***************************************************************************)
Returned(fn) == call.fn = fn /\ ret.t = "return"

\* C3: quoteOrNa returns _n/a_ for every falsy value, and for every non-empty
\* string the string between two backticks with every backtick inside removed.
C3_QuoteRemovesEveryBacktick ==
    Returned("quoteOrNa") =>
        IF call.arg.t = "string" /\ call.arg.v # <<>>
        THEN ret.v = <<Backtick>> \o SelectSeq(call.arg.v, LAMBDA c : c # Backtick) \o <<Backtick>>
        ELSE ret.v = <<"_n/a_">>

\* C10: no line formatExample produces contains the skip key, wherever the key
\* occurs in the example value.
C10_SkipKeyNeverRendered ==
    Returned("formatExample") => ~Contains(ret.v, SKIP_KEY[1])

\* C4: typeOrLink renders by priority: array with items, then $ref, then the
\* first non-empty of anyOf, allOf, oneOf, then a non-empty enum, then the type.
C4_Order == <<"anyOf", "allOf", "oneOf">>
C4_NonEmpty(d, key) == Get(d, key).t = "array" /\ Get(d, key).v # <<>>
C4_FirstCombo(d) ==
    CHOOSE k \in 1..3 : C4_NonEmpty(d, C4_Order[k]) /\ \A m \in 1..(k - 1) : ~C4_NonEmpty(d, C4_Order[m])
C4_Rendering(d) ==
    IF Get(d, "type") = Str(<<"array">>) /\ Get(d, "items") # Undef
    THEN <<Backtick, "array", Backtick, "[">> \o typeOrLink(Get(d, "items")) \o <<"]">>
    ELSE IF Truthy(Get(d, "$ref"))
    THEN <<"[">> \o Get(d, "$ref").v \o <<"](">> \o anchor(Get(d, "$ref").v) \o <<")">>
    ELSE IF \E k \in 1..3 : C4_NonEmpty(d, C4_Order[k])
    THEN LET k == C4_FirstCombo(d)
             members == Get(d, C4_Order[k]).v
         IN  <<C4_Order[k], "(">>
             \o Join([m \in 1..Len(members) |-> typeOrLink(members[m])], <<", ">>) \o <<")">>
    ELSE IF C4_NonEmpty(d, "enum")
    THEN quoteOrNa(Get(d, "type")) \o <<" in (">>
         \o Join([m \in 1..Len(Get(d, "enum").v) |-> quoteOrNa(Str(inspect(Get(d, "enum").v[m])))], <<", ">>)
         \o <<")">>
    ELSE quoteOrNa(Get(d, "type"))
C4_TypeOrLinkPriority ==
    Returned("typeOrLink") => ret.v = C4_Rendering(call.arg)

\* C4 witness: an array with items that also has a $ref, a combinator and an
\* enum has been rendered in the array form.
C4_Witness ==
    /\ Returned("typeOrLink")
    /\ Get(call.arg, "type") = Str(<<"array">>) /\ Get(call.arg, "items") # Undef
    /\ Truthy(Get(call.arg, "$ref"))
    /\ Truthy(Get(call.arg, "allOf")) /\ Get(call.arg, "allOf").v # <<>>
    /\ Truthy(Get(call.arg, "enum")) /\ Get(call.arg, "enum").v # <<>>
    /\ ret.v[1] = Backtick /\ ret.v[2] = "array"

\* C5: the Required column of every row is **yes** or no by membership in
\* required, replaced by the annotation's value for replace, followed by it
\* for append.
C5_Rows == SubSeq(Split(ret.v, NL), 5, Len(Split(ret.v, NL)) - 1)
C5_Expected(Schema, i) ==
    LET entry == Get(Schema.schema, "properties").v[i]
        required == Get(Schema.schema, "required")
        listed == required.t = "array" /\ \E j \in 1..Len(required.v) : required.v[j] = Str(entry.k)
        default == IF listed THEN <<"**yes**">> ELSE <<"no">>
        annotation == Get(Get(entry.v, "docAnnotation"), "required")
    IN  IF ~Truthy(annotation) THEN default
        ELSE IF Get(annotation, "type") = Str(<<"replace">>) THEN Get(annotation, "value").v
        ELSE default \o Get(annotation, "value").v
C5_RequiredColumn ==
    Returned("makePropertiesSection") =>
        /\ Len(C5_Rows) = Len(Get(call.arg.schema, "properties").v)
        /\ \A i \in 1..Len(C5_Rows) : Split(C5_Rows[i], " | ")[2] = C5_Expected(call.arg, i)

\* C5 witness: a required key annotated append and a key that is not
\* required annotated replace were rendered in one table.
C5_Witness ==
    /\ Returned("makePropertiesSection")
    /\ Get(call.arg.schema, "required") = Arr(<<Str(<<"x">>)>>)
    /\ Get(Get(Get(Get(call.arg.schema, "properties"), "x"), "docAnnotation"), "required")
        = Literal(<<P("type", Str(<<"append">>)), P("value", Str(<<"*">>))>>)
    /\ Get(Get(Get(Get(call.arg.schema, "properties"), "y"), "docAnnotation"), "required")
        = Literal(<<P("type", Str(<<"replace">>)), P("value", Str(<<"a", "*">>))>>)
    /\ Split(C5_Rows[1], " | ")[2] = <<"**yes**", "*">>
    /\ Split(C5_Rows[2], " | ")[2] = <<"a", "*">>

\* C8: each of the Examples, Anti-Examples and Properties blocks of a section
\* is present exactly when its own source is non-empty, and a heading that is
\* present is followed by a body.
C8_NonEmptyList(x) == x.t = "array" /\ x.v # <<>>
C8_Selected(schema) ==
    IF Get(schema, "properties") # Undef THEN Get(schema, "properties")
    ELSE Get(schema, "patternProperties")
C8_HasBody(text, heading) ==
    \A i \in 1..Len(text) :
        text[i] = heading => i + 3 <= Len(text) /\ text[i + 1] = NL /\ text[i + 2] = NL /\ text[i + 3] # NL
C8_OptionalBlocks ==
    Returned("makeMarkdownSection") =>
        /\ Contains(ret.v, "#### Examples") <=> C8_NonEmptyList(Get(call.arg.schema, "examples"))
        /\ Contains(ret.v, "#### Anti-Examples") <=> C8_NonEmptyList(Get(call.arg.schema, "antiExamples"))
        /\ Contains(ret.v, "#### Properties")
            <=> (C8_Selected(call.arg.schema).t = "object" /\ C8_Selected(call.arg.schema).v # <<>>)
        /\ \A h \in {"#### Examples", "#### Anti-Examples", "#### Properties"} : C8_HasBody(ret.v, h)

\* C8 witness: a section with examples, an empty antiExamples list and an
\* empty properties mapping beside filled patternProperties was rendered
\* with the Examples block alone.
C8_Witness ==
    /\ Returned("makeMarkdownSection")
    /\ C8_NonEmptyList(Get(call.arg.schema, "examples"))
    /\ Get(call.arg.schema, "antiExamples") = Arr(<<>>)
    /\ Get(call.arg.schema, "properties") = Obj(<<>>)
    /\ Get(call.arg.schema, "patternProperties") # Undef /\ Get(call.arg.schema, "patternProperties").v # <<>>
    /\ Contains(ret.v, "#### Examples")
    /\ ~Contains(ret.v, "#### Anti-Examples") /\ ~Contains(ret.v, "#### Properties")

====
